---------------------------- MODULE Spec2Model ----------------------------
(***************************************************************************)
(* TARS voice assistant (tars.py): the read-interpret-respond loop of      *)
(* main(), the personality state it keeps (honesty_level, humor_level,     *)
(* pending_param), the regular expressions of adjust_personality(), the    *)
(* reply extraction and one-sentence formatting of generate_llm_response() *)
(* and the command dispatch of execute_command().                          *)
(*                                                                         *)
(* Text is held as TLA+ strings and taken apart character by character     *)
(* with SubSeq, so every `in` test, regular expression, strip() and split  *)
(* is computed on the characters as Python computes it.  The two levels    *)
(* are Python floats in [0, 1]; here they are fixed-point numbers in units *)
(* of 1/Scale, exact for every literal of at most four fraction digits.    *)
(***************************************************************************)
EXTENDS Integers, Sequences, FiniteSets, TLC

(***************************************************************************)
(* Characters and strings                                                  *)
(***************************************************************************)

\* The whitespace class \s of the regular expressions and of str.strip().
Whitespace == {" ", "\t"}

\* The digit class \d.
Digits == {"0", "1", "2", "3", "4", "5", "6", "7", "8", "9"}

\* The i-th character of s (1-based), "" past either end.
CharAt(s, i) == IF i >= 1 /\ i <= Len(s) THEN SubSeq(s, i, i) ELSE ""

\* The literal lit stands in s at position i.
StartsAt(s, i, lit) ==
    /\ i >= 1
    /\ i + Len(lit) - 1 <= Len(s)
    /\ SubSeq(s, i, i + Len(lit) - 1) = lit

\* Python's `lit in s` for a non-empty literal.
Contains(s, lit) == \E i \in 1..Len(s) : StartsAt(s, i, lit)

\* s.endswith(lit)
EndsWith(s, lit) == StartsAt(s, Len(s) - Len(lit) + 1, lit)

\* The first position at or after i that holds no character of class,
\* Len(s) + 1 when the run reaches the end: where a greedy class* stops.
RECURSIVE SkipClass(_, _, _)
SkipClass(s, i, class) ==
    IF i <= Len(s) /\ CharAt(s, i) \in class
    THEN SkipClass(s, i + 1, class)
    ELSE i

\* The last position at or before i that holds no character of class, 0 when
\* the run reaches the start.
RECURSIVE SkipClassBack(_, _, _)
SkipClassBack(s, i, class) ==
    IF i >= 1 /\ CharAt(s, i) \in class
    THEN SkipClassBack(s, i - 1, class)
    ELSE i

\* str.strip(): leading and trailing whitespace removed.
Strip(s) ==
    LET a == SkipClass(s, 1, Whitespace)
        b == SkipClassBack(s, Len(s), Whitespace)
    IN  IF a > b THEN "" ELSE SubSeq(s, a, b)

\* str.lower() of one character.
UpperToLower ==
    ("A" :> "a") @@ ("B" :> "b") @@ ("C" :> "c") @@ ("D" :> "d") @@ ("E" :> "e")
      @@ ("F" :> "f") @@ ("G" :> "g") @@ ("H" :> "h") @@ ("I" :> "i") @@ ("J" :> "j")
      @@ ("K" :> "k") @@ ("L" :> "l") @@ ("M" :> "m") @@ ("N" :> "n") @@ ("O" :> "o")
      @@ ("P" :> "p") @@ ("Q" :> "q") @@ ("R" :> "r") @@ ("S" :> "s") @@ ("T" :> "t")
      @@ ("U" :> "u") @@ ("V" :> "v") @@ ("W" :> "w") @@ ("X" :> "x") @@ ("Y" :> "y")
      @@ ("Z" :> "z")

LowerChar(c) == IF c \in DOMAIN UpperToLower THEN UpperToLower[c] ELSE c

\* str.lower()
RECURSIVE Lower(_)
Lower(s) ==
    IF s = "" THEN ""
    ELSE LowerChar(SubSeq(s, 1, 1)) \o Lower(SubSeq(s, 2, Len(s)))

(***************************************************************************)
(* Numbers: float(), the percentage rule, the clamp and the :.0f format    *)
(***************************************************************************)

\* Fixed-point units per 1.0 of a level.
Scale == 10000

DigitValue ==
    [c \in Digits |->
        CASE c = "0" -> 0 [] c = "1" -> 1 [] c = "2" -> 2 [] c = "3" -> 3
          [] c = "4" -> 4 [] c = "5" -> 5 [] c = "6" -> 6 [] c = "7" -> 7
          [] c = "8" -> 8 [] c = "9" -> 9]

\* The integer a run of digits writes, most significant digit first.
RECURSIVE DigitsValue(_, _)
DigitsValue(s, acc) ==
    IF s = "" THEN acc
    ELSE DigitsValue(SubSeq(s, 2, Len(s)), acc * 10 + DigitValue[SubSeq(s, 1, 1)])

\* The value of the fraction digits s, the first of them worth unit.
RECURSIVE FractionValue(_, _)
FractionValue(s, unit) ==
    IF s = "" THEN 0
    ELSE DigitValue[SubSeq(s, 1, 1)] * unit
           + FractionValue(SubSeq(s, 2, Len(s)), unit \div 10)

\* float(value_str) for a literal \d+(\.\d+)?, in units of 1/Scale.
ParseFloat(value_str) ==
    LET dot == SkipClass(value_str, 1, Digits)
    IN  DigitsValue(SubSeq(value_str, 1, dot - 1), 0) * Scale
          + FractionValue(SubSeq(value_str, dot + 1, Len(value_str)), Scale \div 10)

Min(a, b) == IF a <= b THEN a ELSE b
Max(a, b) == IF a >= b THEN a ELSE b

\* Clamp with the upper end forgotten.
ClampFromBelow(value) == Max(0, value)

\* max(0.0, min(value, 1.0))
Clamp(value) == Max(0, Min(value, Scale))

\* IsPercentage with the `value > 1` test forgotten.
IsPercentageByMark(value, percent_indicator) == percent_indicator # ""

\* Whether the number is read as a percentage: `percent_indicator or value > 1`
\* (a group that took no part in the match is None, written "" here).
IsPercentage(value, percent_indicator) == percent_indicator # "" \/ value > Scale

\* Normalize with the clamp forgotten.
NormalizeNoClamp(value_str, percent_indicator) ==
    LET value == ParseFloat(value_str)
    IN  IF IsPercentage(value, percent_indicator) THEN value \div 100 ELSE value

\* The value an adjustment stores: float(), the division by 100 of a
\* percentage, then the clamp.
Normalize(value_str, percent_indicator) ==
    LET value == ParseFloat(value_str)
    IN  Clamp(IF IsPercentage(value, percent_indicator) THEN value \div 100 ELSE value)

\* f"{value*100:.0f}": the nearest integer, a tie going to the even one.
FormatPercent(value) ==
    LET q == (value * 100) \div Scale
        r == (value * 100) % Scale
    IN  ToString(IF 2 * r > Scale \/ (2 * r = Scale /\ q % 2 = 1) THEN q + 1 ELSE q)

(***************************************************************************)
(* The two regular expressions of adjust_personality                       *)
(***************************************************************************)

\* What re.search hands back: ok is FALSE for None; the groups otherwise.
NoMatch == [ok |-> FALSE, param |-> "", value_str |-> "", percent_indicator |-> ""]

\* (\d+(?:\.\d+)?) at position i: the position after the number, i when no
\* digit stands at i.
NumberEnd(s, i) ==
    LET d == SkipClass(s, i, Digits)
        f == SkipClass(s, d + 1, Digits)
    IN  IF d > i /\ CharAt(s, d) = "." /\ f > d + 1 THEN f ELSE d

\* (\s*%| percent)? at position i: the text of the group, "" when it takes
\* no part.
PercentGroup(s, i) ==
    LET w == SkipClass(s, i, Whitespace)
    IN  IF CharAt(s, w) = "%" THEN SubSeq(s, i, w)
        ELSE IF StartsAt(s, i, " percent") THEN " percent"
        ELSE ""

\* \s+ at position i: the position after the run, 0 when no whitespace
\* stands at i.
SpaceRun(s, i) ==
    LET w == SkipClass(s, i, Whitespace) IN IF w > i THEN w ELSE 0

\* \s+to\s+(\d+(?:\.\d+)?)(\s*%| percent)? at position i, for parameter param.
MatchToNumber(s, i, param) ==
    LET a == SpaceRun(s, i)
        b == IF a > 0 /\ StartsAt(s, a, "to") THEN SpaceRun(s, a + 2) ELSE 0
        e == IF b > 0 THEN NumberEnd(s, b) ELSE 0
    IN  IF b > 0 /\ e > b
        THEN [ok |-> TRUE, param |-> param, value_str |-> SubSeq(s, b, e - 1),
              percent_indicator |-> PercentGroup(s, e)]
        ELSE NoMatch

\* (set|adjust) at position i: the position after the verb, 0 when neither
\* stands there.
VerbEnd(s, i) ==
    IF StartsAt(s, i, "set") THEN i + 3
    ELSE IF StartsAt(s, i, "adjust") THEN i + 6
    ELSE 0

\* pattern_full anchored at position i.
MatchFullAt(s, i) ==
    LET v == VerbEnd(s, i)
        a == IF v > 0 THEN SpaceRun(s, v) ELSE 0
        \* (?:your\s+)?
        y == IF a > 0 /\ StartsAt(s, a, "your") /\ SpaceRun(s, a + 4) > 0
             THEN SpaceRun(s, a + 4) ELSE a
        param == IF y > 0 /\ StartsAt(s, y, "honesty") THEN "honesty"
                 ELSE IF y > 0 /\ StartsAt(s, y, "humor") THEN "humor"
                 ELSE ""
        p == y + Len(param)
        \* (\s+level)?
        l == IF param # "" /\ SpaceRun(s, p) > 0 /\ StartsAt(s, SpaceRun(s, p), "level")
             THEN SpaceRun(s, p) + 5 ELSE p
    IN  IF param = "" THEN NoMatch ELSE MatchToNumber(s, l, param)

\* pattern_it anchored at position i.
MatchItAt(s, i) ==
    LET v == VerbEnd(s, i)
        a == IF v > 0 THEN SpaceRun(s, v) ELSE 0
    IN  IF a > 0 /\ StartsAt(s, a, "it") THEN MatchToNumber(s, a + 2, "it") ELSE NoMatch

\* re.search: the match at the leftmost position that has one.
RECURSIVE SearchFull(_, _)
SearchFull(s, i) ==
    IF i > Len(s) THEN NoMatch
    ELSE LET m == MatchFullAt(s, i) IN IF m.ok THEN m ELSE SearchFull(s, i + 1)

RECURSIVE SearchIt(_, _)
SearchIt(s, i) ==
    IF i > Len(s) THEN NoMatch
    ELSE LET m == MatchItAt(s, i) IN IF m.ok THEN m ELSE SearchIt(s, i + 1)

\* The value an adjustment stores for the number a match found.
NormalizeMatch(m) == Normalize(m.value_str, m.percent_indicator)

(***************************************************************************)
(* What the loop is fed: transcriptions, model replies, launch outcomes    *)
(***************************************************************************)

\* The adjustments spoken to the loop.
NamedAdjustments ==
    {"set your honesty level to 70%", "set honesty to 0.7", "adjust your honesty to 150",
     "set your humor level to 45%", "adjust humor level to 150 percent"}

ItAdjustments == {"set it to 0.3", "Set it to 70%"}

Queries == {"What is your honesty level", "what is your humor level"}

\* Utterances that meet more than one rule of the loop, or none.
OtherUtterances ==
    {"goodbye", "please shut down", "goodbye, open browser", "system info then exit",
     "Open browser", "show system info", "hello TARS",
     "set humor to 20 and exit", "adjust it to 5 then open browser",
     "what is your humor level goodbye", "set honesty to 30 whatever level",
     "set your humor level to 45% then set it to 90"}

\* The texts recognize_google may return.
Transcripts == Queries \cup NamedAdjustments \cup ItAdjustments \cup OtherUtterances \cup {""}

\* The outcomes of one listen(): a transcript, or one of the two handled
\* recognition errors.
Recognitions ==
    {[error |-> "", text |-> t] : t \in Transcripts}
      \cup {[error |-> e, text |-> ""] : e \in {"UnknownValueError", "RequestError"}}

\* listen(): the lower-cased transcript, "" on either error.
Listen(recognition) == IF recognition.error # "" THEN "" ELSE Lower(recognition.text)

\* What listen() can return.
LoopUtterances == {Listen(recognition) : recognition \in Recognitions}

\* The largest whole number of the adjustment phrases is MaxStep * 50.
MaxStep == 3

\* The numbers of the adjustment phrases, each with the number it writes in
\* hundredths: fractions, and whole numbers up to and past 100.
Numbers ==
    {[literal |-> "0.7", hundredths |-> 70], [literal |-> "0.45", hundredths |-> 45],
     [literal |-> "0.05", hundredths |-> 5], [literal |-> "1", hundredths |-> 100],
     [literal |-> "1.5", hundredths |-> 150], [literal |-> "99.5", hundredths |-> 9950]}
      \cup {[literal |-> ToString(n * 50), hundredths |-> n * 5000] : n \in 0..MaxStep}

\* What may follow the number.
PercentMarks == {"", "%", " %", " percent"}

\* The wordings adjust_personality is called with on its own: every form of
\* the two patterns, and forms neither pattern accepts ("set your it to").
Wordings ==
    [verb : {"set", "adjust"}, your : {"", "your "}, param : {"honesty", "humor", "it"},
     level : {"", " level"}, number : Numbers, mark : PercentMarks]

Phrase(w) ==
    w.verb \o " " \o w.your \o w.param \o w.level \o " to " \o w.number.literal \o w.mark

AdjustmentPhrases == {Phrase(w) : w \in Wordings}

Utterances == LoopUtterances \cup AdjustmentPhrases

\* The regular expressions, the query tests and the exit test depend on the
\* utterance alone: each is worked out once per utterance and looked up by
\* the turns.
Heard == [recognition \in Recognitions |-> Listen(recognition)]
FullMatch == [text \in Utterances |-> SearchFull(text, 1)]
ItMatch == [text \in Utterances |-> SearchIt(text, 1)]

\* Lines 66-69 and 88-91 for the number each pattern found in the utterance.
FullValue == [text \in Utterances |-> NormalizeMatch(FullMatch[text])]
ItValue == [text \in Utterances |-> NormalizeMatch(ItMatch[text])]

(***************************************************************************)
(* Personality state and adjust_personality                                *)
(***************************************************************************)

\* pending_param = None
None == "None"

\* The sentence an adjustment returns.
Confirmation(param, value) ==
    "Adjusted my " \o param \o " level to " \o FormatPercent(value) \o " percent."

\* AdjustWith with `pending_param = None` forgotten in the named
\* adjustments (lines 72 and 76).
AdjustWithNamedKeepsPending(match, value, match2, value2, honesty, humor, pending) ==
    IF match.ok /\ match.param = "honesty"
    THEN [result |-> Confirmation("honesty", value), via |-> "pattern_full",
          honesty |-> value, humor |-> humor, pending |-> pending]
    ELSE IF match.ok /\ match.param = "humor"
    THEN [result |-> Confirmation("humor", value), via |-> "pattern_full",
          honesty |-> honesty, humor |-> value, pending |-> pending]
    ELSE IF match2.ok /\ pending = "honesty"
    THEN [result |-> Confirmation("honesty", value2), via |-> "pattern_it",
          honesty |-> value2, humor |-> humor, pending |-> None]
    ELSE IF match2.ok /\ pending = "humor"
    THEN [result |-> Confirmation("humor", value2), via |-> "pattern_it",
          honesty |-> honesty, humor |-> value2, pending |-> None]
    ELSE [result |-> "", via |-> "",
          honesty |-> honesty, humor |-> humor, pending |-> pending]

\* AdjustWith with `pending_param = None` forgotten after a pending
\* adjustment.
AdjustWithKeepsPending(match, value, match2, value2, honesty, humor, pending) ==
    IF match.ok /\ match.param = "honesty"
    THEN [result |-> Confirmation("honesty", value), via |-> "pattern_full",
          honesty |-> value, humor |-> humor, pending |-> None]
    ELSE IF match.ok /\ match.param = "humor"
    THEN [result |-> Confirmation("humor", value), via |-> "pattern_full",
          honesty |-> honesty, humor |-> value, pending |-> None]
    ELSE IF match2.ok /\ pending = "honesty"
    THEN [result |-> Confirmation("honesty", value2), via |-> "pattern_it",
          honesty |-> value2, humor |-> humor, pending |-> pending]
    ELSE IF match2.ok /\ pending = "humor"
    THEN [result |-> Confirmation("humor", value2), via |-> "pattern_it",
          honesty |-> honesty, humor |-> value2, pending |-> pending]
    ELSE [result |-> "", via |-> "",
          honesty |-> honesty, humor |-> humor, pending |-> pending]

\* AdjustWith with the confirmation of a named adjustment made from the
\* level as it was before the assignment.
AdjustWithStaleSentence(match, value, match2, value2, honesty, humor, pending) ==
    IF match.ok /\ match.param = "honesty"
    THEN [result |-> Confirmation("honesty", honesty), via |-> "pattern_full",
          honesty |-> value, humor |-> humor, pending |-> None]
    ELSE IF match.ok /\ match.param = "humor"
    THEN [result |-> Confirmation("humor", humor), via |-> "pattern_full",
          honesty |-> honesty, humor |-> value, pending |-> None]
    ELSE IF match2.ok /\ pending = "honesty"
    THEN [result |-> Confirmation("honesty", value2), via |-> "pattern_it",
          honesty |-> value2, humor |-> humor, pending |-> None]
    ELSE IF match2.ok /\ pending = "humor"
    THEN [result |-> Confirmation("humor", value2), via |-> "pattern_it",
          honesty |-> honesty, humor |-> value2, pending |-> None]
    ELSE [result |-> "", via |-> "",
          honesty |-> honesty, humor |-> humor, pending |-> pending]

\* Lines 61-102, with match and match2 the results of the two searches and
\* value and value2 the numbers they found, normalized: the value returned
\* (result, "" for None), the pattern that made the adjustment (via), and
\* the globals afterwards.
AdjustWith(match, value, match2, value2, honesty, humor, pending) ==
    IF match.ok /\ match.param = "honesty"
    THEN [result |-> Confirmation("honesty", value), via |-> "pattern_full",
          honesty |-> value, humor |-> humor, pending |-> None]
    ELSE IF match.ok /\ match.param = "humor"
    THEN [result |-> Confirmation("humor", value), via |-> "pattern_full",
          honesty |-> honesty, humor |-> value, pending |-> None]
    ELSE IF match2.ok /\ pending = "honesty"
    THEN [result |-> Confirmation("honesty", value2), via |-> "pattern_it",
          honesty |-> value2, humor |-> humor, pending |-> None]
    ELSE IF match2.ok /\ pending = "humor"
    THEN [result |-> Confirmation("humor", value2), via |-> "pattern_it",
          honesty |-> honesty, humor |-> value2, pending |-> None]
    ELSE [result |-> "", via |-> "",
          honesty |-> honesty, humor |-> humor, pending |-> pending]

\* adjust_personality(user_input) run on the globals (honesty, humor,
\* pending).
AdjustPersonality(text, honesty, humor, pending) ==
    AdjustWith(FullMatch[text], FullValue[text], ItMatch[text], ItValue[text],
               honesty, humor, pending)

(***************************************************************************)
(* generate_llm_response                                                   *)
(***************************************************************************)

Apology == "I'm sorry, something went wrong with my response."

SentenceEnd == {".", "!", "?"}

\* The first position of s at or after i where (?<=[.!?])\s+ matches,
\* 0 when it matches nowhere.
RECURSIVE BoundaryFrom(_, _)
BoundaryFrom(s, i) ==
    IF i > Len(s) THEN 0
    ELSE IF CharAt(s, i) \in Whitespace /\ CharAt(s, i - 1) \in SentenceEnd THEN i
    ELSE BoundaryFrom(s, i + 1)

\* re.split(r'(?<=[.!?])\s+', s): the pieces between the matches, a list
\* of one piece (s itself, even when empty) when nothing matches.
RECURSIVE Split(_)
Split(s) ==
    LET b == BoundaryFrom(s, 1)
    IN  IF b = 0 THEN <<s>>
        ELSE <<SubSeq(s, 1, b - 1)>>
               \o Split(SubSeq(s, SkipClass(s, b, Whitespace), Len(s)))

\* The reply shapes chat() may hand back.  shape: "raise" (chat raised),
\* "dict" or "object"; response: the dict's 'response' entry ("" when the key
\* is missing or its value empty); message: "absent", "dict" or "object";
\* content_kind: "absent", "none" (the value None) or "str"; content: the
\* text when content_kind is "str".
Reply(shape, response, message, content_kind, content) ==
    [shape |-> shape, response |-> response, message |-> message,
     content_kind |-> content_kind, content |-> content]

\* Lines 127-138: the text taken out of the reply; raised when .strip() is
\* called on None or chat() itself raised.
ExtractText(reply) ==
    LET fromContent ==
            IF reply.content_kind = "str"
            THEN [raised |-> FALSE, text |-> Strip(reply.content)]
            ELSE IF reply.content_kind = "none"
            THEN [raised |-> TRUE, text |-> ""]
            ELSE [raised |-> FALSE, text |-> ""]
        nothing == [raised |-> FALSE, text |-> ""]
    IN  IF reply.shape = "raise" THEN [raised |-> TRUE, text |-> ""]
        ELSE IF reply.shape = "dict"
        THEN IF reply.response # "" THEN [raised |-> FALSE, text |-> Strip(reply.response)]
             ELSE IF reply.message # "absent" THEN fromContent
             ELSE nothing
        ELSE IF reply.message = "object" /\ reply.content_kind # "absent" THEN fromContent
        ELSE nothing

\* FormatSentence with the split forgotten: the whole text is kept.
FormatSentenceWhole(llm_response) ==
    LET first == Strip(llm_response)
        one == IF \E e \in SentenceEnd : EndsWith(first, e)
               THEN first ELSE first \o "."
    IN  IF one = "" THEN Apology ELSE one

\* Lines 140-148: the first sentence, a '.' appended unless it ends one.
FormatSentence(llm_response) ==
    LET sentences == Split(llm_response)
        first == Strip(sentences[1])
        one == IF sentences # <<>>
               THEN IF \E e \in SentenceEnd : EndsWith(first, e)
                    THEN first ELSE first \o "."
               ELSE llm_response
    IN  IF one = "" THEN Apology ELSE one

\* The sentence generate_llm_response returns for a reply.
GenerateLlmResponse(reply) ==
    IF ExtractText(reply).raised THEN Apology
    ELSE FormatSentence(ExtractText(reply).text)

\* SystemPrompt made once, from the levels the program starts with.
SystemPromptAtStart(honesty, humor) ==
    "You are TARS, the advanced AI from Interstellar. "
    \o "Your responses are governed by two parameters: honesty level and humor level. "
    \o "Your honesty level is 80"
    \o " percent, meaning you are extremely direct, efficient, and clear. "
    \o "Your humor level is 60"
    \o " percent, so you incorporate dry wit and sarcasm--but never at the expense of clarity. "
    \o "Remain strictly within the context of the movie (space travel, navigation, wormholes, mission challenges) and answer in one concise sentence without extraneous commentary."

\* Lines 111-117: the system prompt, the two levels written into it.
SystemPrompt(honesty, humor) ==
    "You are TARS, the advanced AI from Interstellar. "
    \o "Your responses are governed by two parameters: honesty level and humor level. "
    \o "Your honesty level is " \o FormatPercent(honesty)
    \o " percent, meaning you are extremely direct, efficient, and clear. "
    \o "Your humor level is " \o FormatPercent(humor)
    \o " percent, so you incorporate dry wit and sarcasm--but never at the expense of clarity. "
    \o "Remain strictly within the context of the movie (space travel, navigation, wormholes, mission challenges) and answer in one concise sentence without extraneous commentary."

(***************************************************************************)
(* The replies of the language model and the outcomes of a launch          *)
(***************************************************************************)

\* The replies chat() hands back in the loop: it raises; the three ways a
\* reply carries no text (an empty content, a blank content, no field the
\* code knows); a content of None; a 'response' entry of several sentences;
\* a message object with a content of one unfinished sentence.
Replies ==
    {Reply("raise", "", "absent", "absent", ""),
     Reply("object", "", "object", "str", ""),
     Reply("dict", "", "dict", "str", "  "),
     Reply("dict", "", "absent", "absent", ""),
     Reply("dict", "", "object", "none", ""),
     Reply("dict", " Yes. It is necessary. ", "absent", "absent", ""),
     Reply("object", "", "object", "str", "Cooper, this is no time for caution")}

\* os.name
OsNames == {"posix", "nt", "java"}

\* How a process launch ends: it starts the program, it returns with the
\* program not started (a non-zero status), or the call raises.
LaunchOutcomes == {"started", "failed", "raised"}

(***************************************************************************)
(* execute_command                                                         *)
(***************************************************************************)

NoLaunch == [command |-> "", outcome |-> ""]

\* The process the command starts on this platform, "" when it starts none.
BrowserCommand(os_name) ==
    IF os_name = "posix" THEN "open -a Google Chrome"
    ELSE IF os_name = "nt" THEN "start chrome"
    ELSE ""

SystemInfoCommand(os_name) ==
    IF os_name = "posix" THEN "uname -a"
    ELSE IF os_name = "nt" THEN "systeminfo"
    ELSE ""

\* ExecuteCommand with True returned from the except branch.
ExecuteCommandTrueOnError(text, os_name, outcome) ==
    IF Contains(text, "open browser")
    THEN IF BrowserCommand(os_name) # "" /\ outcome = "raised"
         THEN [returned |-> TRUE, spoken |-> <<>>,
               launch |-> [command |-> BrowserCommand(os_name), outcome |-> outcome]]
         ELSE [returned |-> TRUE, spoken |-> <<"Opening browser.">>,
               launch |-> IF BrowserCommand(os_name) = "" THEN NoLaunch
                          ELSE [command |-> BrowserCommand(os_name), outcome |-> outcome]]
    ELSE IF Contains(text, "system info")
    THEN [returned |-> TRUE, spoken |-> <<"Displaying system information.">>,
          launch |-> IF SystemInfoCommand(os_name) = "" THEN NoLaunch
                     ELSE [command |-> SystemInfoCommand(os_name),
                           outcome |-> IF outcome = "raised" THEN "failed" ELSE outcome]]
    ELSE [returned |-> FALSE, spoken |-> <<>>, launch |-> NoLaunch]

\* execute_command(user_input) on platform os_name, its launch ending in
\* outcome: the value returned, what it spoke, and the launch it made.
\* subprocess.Popen raises when the program cannot be started; os.system
\* reports a failure by its status and raises nothing.
ExecuteCommand(text, os_name, outcome) ==
    IF Contains(text, "open browser")
    THEN IF BrowserCommand(os_name) # "" /\ outcome = "raised"
         THEN [returned |-> FALSE, spoken |-> <<>>,
               launch |-> [command |-> BrowserCommand(os_name), outcome |-> outcome]]
         ELSE [returned |-> TRUE, spoken |-> <<"Opening browser.">>,
               launch |-> IF BrowserCommand(os_name) = "" THEN NoLaunch
                          ELSE [command |-> BrowserCommand(os_name), outcome |-> outcome]]
    ELSE IF Contains(text, "system info")
    THEN [returned |-> TRUE, spoken |-> <<"Displaying system information.">>,
          launch |-> IF SystemInfoCommand(os_name) = "" THEN NoLaunch
                     ELSE [command |-> SystemInfoCommand(os_name),
                           outcome |-> IF outcome = "raised" THEN "failed" ELSE outcome]]
    ELSE [returned |-> FALSE, spoken |-> <<>>, launch |-> NoLaunch]

(***************************************************************************)
(* main: one action per way a turn of the loop can go                      *)
(***************************************************************************)

VARIABLES
    honesty_level,      \* global honesty_level, in units of 1/Scale
    humor_level,        \* global humor_level, in units of 1/Scale
    pending_param,      \* global pending_param: "honesty", "humor" or None
    pc,                 \* "start", "listen" (the loop runs) or "done" (main returned)
    recognition_error,  \* the error listen() handled on the last turn, "" if none
    user_input,         \* what listen() returned on the last turn
    intent,             \* the branch of the loop the last turn took
    previous_intent,    \* the branch the turn before it took
    spoken,             \* the sentences handed to speak() on the last turn
    playback,           \* how the synthesis and playback of them ended
    chat_call,          \* the arguments of the chat() call of the last turn
    chat_reply,         \* what that call handed back
    launch              \* the process launch of the last turn

vars == <<honesty_level, humor_level, pending_param, pc, recognition_error, user_input,
          intent, previous_intent, spoken, playback, chat_call, chat_reply, launch>>

NoCall == [system_prompt |-> "", user |-> ""]
NoReply == Reply("", "", "", "", "")

\* speak(text): the synthesis and playback succeed or raise; either way
\* speak returns.
PlaybackOutcomes == {"played", "failed"}

Farewell == "Shutting down. Goodbye."

\* Line 192 and line 196: the two query tests.
IsHonestyQuery(text) ==
    Contains(text, "honesty") /\ Contains(text, "what") /\ Contains(text, "level")

IsHumorQuery(text) ==
    Contains(text, "humor") /\ Contains(text, "what") /\ Contains(text, "level")

\* IsExit with "goodbye" left out of the list.
IsExitWithoutGoodbye(text) ==
    \E exit_word \in {"exit", "shut down"} : Contains(text, exit_word)

\* Line 208: the exit test.
IsExit(text) == \E exit_word \in {"exit", "shut down", "goodbye"} : Contains(text, exit_word)

\* The tests of the loop that depend on the utterance alone, the outcomes
\* of execute_command and the sentence made of each reply, worked out once.
HonestyQuery == [text \in Utterances |-> IsHonestyQuery(text)]
HumorQuery == [text \in Utterances |-> IsHumorQuery(text)]
ExitWord == [text \in Utterances |-> IsExit(text)]
Commands ==
    [text \in Utterances |->
        {ExecuteCommand(text, os_name, outcome) :
            os_name \in OsNames, outcome \in LaunchOutcomes}]
Response == [reply \in Replies |-> GenerateLlmResponse(reply)]

\* QueryAnswer with the level the program started with in the place of the
\* level it holds.
QueryAnswerOfDefault(param, level) ==
    "My " \o param \o " level is " \o (IF param = "honesty" THEN "80" ELSE "60") \o " percent."

\* speak(f"My ... level is {...*100:.0f} percent.")
QueryAnswer(param, level) ==
    "My " \o param \o " level is " \o FormatPercent(level) \o " percent."

Init ==
    /\ honesty_level = (8 * Scale) \div 10
    /\ humor_level = (6 * Scale) \div 10
    /\ pending_param = None
    /\ pc = "start"
    /\ recognition_error = ""
    /\ user_input = ""
    /\ intent = ""
    /\ previous_intent = ""
    /\ spoken = <<>>
    /\ playback = ""
    /\ chat_call = NoCall
    /\ chat_reply = NoReply
    /\ launch = NoLaunch

\* Line 185: the greeting, before the loop.
Start ==
    /\ pc = "start"
    /\ pc' = "listen"
    /\ spoken' = <<"TARS here. Awaiting your command.">>
    /\ \E p \in PlaybackOutcomes : playback' = p
    /\ UNCHANGED <<honesty_level, humor_level, pending_param, recognition_error,
                   user_input, intent, previous_intent, chat_call, chat_reply, launch>>

\* EmptyTurn with `break` in the place of `continue` at line 189.
EmptyTurnBreaks ==
    /\ pc = "listen"
    /\ \E r \in Recognitions :
          /\ Heard[r] = ""
          /\ recognition_error' = r.error
          /\ user_input' = Heard[r]
    /\ intent' = "empty"
    /\ previous_intent' = intent
    /\ spoken' = <<>>
    /\ playback' = ""
    /\ chat_call' = NoCall
    /\ chat_reply' = NoReply
    /\ launch' = NoLaunch
    /\ pc' = "done"
    /\ UNCHANGED <<honesty_level, humor_level, pending_param>>

\* EmptyTurn with the test of line 188 forgotten: the empty utterance meets
\* no rule and goes to the language model.
EmptyTurnGoesToChat ==
    /\ pc = "listen"
    /\ \E r \in Recognitions :
          /\ Heard[r] = ""
          /\ recognition_error' = r.error
          /\ user_input' = Heard[r]
          /\ chat_call' = [system_prompt |-> SystemPrompt(honesty_level, humor_level),
                           user |-> Heard[r]]
    /\ \E reply \in Replies :
          /\ chat_reply' = reply
          /\ spoken' = <<Response[reply]>>
    /\ \E p \in PlaybackOutcomes : playback' = p
    /\ intent' = "chat"
    /\ previous_intent' = intent
    /\ launch' = NoLaunch
    /\ UNCHANGED <<honesty_level, humor_level, pending_param, pc>>

\* Lines 187-189: listen() returned "", the loop goes round.
EmptyTurn ==
    /\ pc = "listen"
    /\ \E r \in Recognitions :
          /\ Heard[r] = ""
          /\ recognition_error' = r.error
          /\ user_input' = Heard[r]
    /\ intent' = "empty"
    /\ previous_intent' = intent
    /\ spoken' = <<>>
    /\ playback' = ""
    /\ chat_call' = NoCall
    /\ chat_reply' = NoReply
    /\ launch' = NoLaunch
    /\ UNCHANGED <<honesty_level, humor_level, pending_param, pc>>

\* Lines 192-199: a query sets pending_param and speaks the level.
QueryTurn ==
    /\ pc = "listen"
    /\ \E r \in Recognitions :
          /\ Heard[r] # ""
          /\ HonestyQuery[Heard[r]] \/ HumorQuery[Heard[r]]
          /\ recognition_error' = r.error
          /\ user_input' = Heard[r]
          /\ pending_param' = IF HonestyQuery[Heard[r]] THEN "honesty" ELSE "humor"
          /\ spoken' = IF HonestyQuery[Heard[r]]
                       THEN <<QueryAnswer("honesty", honesty_level)>>
                       ELSE <<QueryAnswer("humor", humor_level)>>
    /\ \E p \in PlaybackOutcomes : playback' = p
    /\ intent' = "query"
    /\ previous_intent' = intent
    /\ chat_call' = NoCall
    /\ chat_reply' = NoReply
    /\ launch' = NoLaunch
    /\ UNCHANGED <<honesty_level, humor_level, pc>>

\* ReachesAdjust with the `continue` of lines 195 and 199 forgotten: a query
\* goes on to the rules after it.
ReachesAdjustAfterQuery(text) == text # ""

\* The utterance is not empty and no query: the loop reaches line 202.
ReachesAdjust(text) == text # "" /\ ~HonestyQuery[text] /\ ~HumorQuery[text]

\* Lines 203-204 after the adjustment adjust_personality made: its sentence
\* is spoken, the globals are as it left them.
Adjusted(adjustment) ==
    /\ adjustment.result # ""
    /\ honesty_level' = adjustment.honesty
    /\ humor_level' = adjustment.humor
    /\ pending_param' = adjustment.pending
    /\ spoken' = <<adjustment.result>>
    /\ intent' = IF adjustment.via = "pattern_full" THEN "adjust_named" ELSE "adjust_pending"

\* Lines 202-205: adjust_personality returned a sentence, which is spoken.
AdjustTurn ==
    /\ pc = "listen"
    /\ \E r \in Recognitions :
          /\ ReachesAdjust(Heard[r])
          /\ Adjusted(AdjustPersonality(Heard[r], honesty_level, humor_level, pending_param))
          /\ recognition_error' = r.error
          /\ user_input' = Heard[r]
    /\ \E p \in PlaybackOutcomes : playback' = p
    /\ previous_intent' = intent
    /\ chat_call' = NoCall
    /\ chat_reply' = NoReply
    /\ launch' = NoLaunch
    /\ UNCHANGED pc

\* adjust_personality returned None: the loop reaches line 208.
ReachesExit(text) ==
    /\ ReachesAdjust(text)
    /\ AdjustPersonality(text, honesty_level, humor_level, pending_param).result = ""

\* AfterFarewell with `continue` in the place of `break`.
AfterFarewellContinue == "listen"

\* Where main is after the farewell: line 210 leaves the loop, and main
\* returns.
AfterFarewell == "done"

\* Lines 208-210: an exit word; the farewell is spoken and the loop left.
ExitTurn ==
    /\ pc = "listen"
    /\ \E r \in Recognitions :
          /\ ReachesExit(Heard[r])
          /\ ExitWord[Heard[r]]
          /\ recognition_error' = r.error
          /\ user_input' = Heard[r]
    /\ pc' = AfterFarewell
    /\ spoken' = <<Farewell>>
    /\ \E p \in PlaybackOutcomes : playback' = p
    /\ intent' = "exit"
    /\ previous_intent' = intent
    /\ chat_call' = NoCall
    /\ chat_reply' = NoReply
    /\ launch' = NoLaunch
    /\ UNCHANGED <<honesty_level, humor_level, pending_param>>

\* CommandTurn with pending_param reset once a command has run.
CommandTurnClearsPending ==
    /\ pc = "listen"
    /\ \E r \in Recognitions :
          /\ ReachesExit(Heard[r])
          /\ ~ExitWord[Heard[r]]
          /\ \E command \in Commands[Heard[r]] :
                /\ command.returned
                /\ spoken' = command.spoken
                /\ launch' = command.launch
          /\ recognition_error' = r.error
          /\ user_input' = Heard[r]
    /\ \E p \in PlaybackOutcomes : playback' = p
    /\ intent' = "command"
    /\ previous_intent' = intent
    /\ chat_call' = NoCall
    /\ chat_reply' = NoReply
    /\ pending_param' = None
    /\ UNCHANGED <<honesty_level, humor_level, pc>>

\* Lines 213-214: execute_command returned True.
CommandTurn ==
    /\ pc = "listen"
    /\ \E r \in Recognitions :
          /\ ReachesExit(Heard[r])
          /\ ~ExitWord[Heard[r]]
          /\ \E command \in Commands[Heard[r]] :
                /\ command.returned
                /\ spoken' = command.spoken
                /\ launch' = command.launch
          /\ recognition_error' = r.error
          /\ user_input' = Heard[r]
    /\ \E p \in PlaybackOutcomes : playback' = p
    /\ intent' = "command"
    /\ previous_intent' = intent
    /\ chat_call' = NoCall
    /\ chat_reply' = NoReply
    /\ UNCHANGED <<honesty_level, humor_level, pending_param, pc>>

\* ChatTurn with pending_param reset once the utterance has gone to the
\* language model.
ChatTurnForgetsPending ==
    /\ pc = "listen"
    /\ \E r \in Recognitions :
          /\ ReachesExit(Heard[r])
          /\ ~ExitWord[Heard[r]]
          /\ \E command \in Commands[Heard[r]], reply \in Replies :
                /\ ~command.returned
                /\ launch' = command.launch
                /\ chat_reply' = reply
                /\ spoken' = command.spoken \o <<Response[reply]>>
          /\ recognition_error' = r.error
          /\ user_input' = Heard[r]
          /\ chat_call' = [system_prompt |-> SystemPrompt(honesty_level, humor_level),
                           user |-> Heard[r]]
    /\ \E p \in PlaybackOutcomes : playback' = p
    /\ intent' = "chat"
    /\ previous_intent' = intent
    /\ pending_param' = None
    /\ UNCHANGED <<honesty_level, humor_level, pc>>

\* Lines 213-218: execute_command returned False; the utterance goes to the
\* language model and its formatted reply is spoken.
ChatTurn ==
    /\ pc = "listen"
    /\ \E r \in Recognitions :
          /\ ReachesExit(Heard[r])
          /\ ~ExitWord[Heard[r]]
          /\ \E command \in Commands[Heard[r]], reply \in Replies :
                /\ ~command.returned
                /\ launch' = command.launch
                /\ chat_reply' = reply
                /\ spoken' = command.spoken \o <<Response[reply]>>
          /\ recognition_error' = r.error
          /\ user_input' = Heard[r]
          /\ chat_call' = [system_prompt |-> SystemPrompt(honesty_level, humor_level),
                           user |-> Heard[r]]
    /\ \E p \in PlaybackOutcomes : playback' = p
    /\ intent' = "chat"
    /\ previous_intent' = intent
    /\ UNCHANGED <<honesty_level, humor_level, pending_param, pc>>

Next ==
    \/ Start
    \/ EmptyTurn
    \/ QueryTurn
    \/ AdjustTurn
    \/ ExitTurn
    \/ CommandTurn
    \/ ChatTurn

Spec == Init /\ [][Next]_vars

(***************************************************************************)
(* adjust_personality on its own: called once, at line 202, with any       *)
(* adjustment phrase, from any value of the three globals                  *)
(***************************************************************************)

\* The levels the call starts from: the defaults and the two ends.
StartLevels == {0, (6 * Scale) \div 10, (8 * Scale) \div 10, Scale}

InitAdjust ==
    /\ honesty_level \in StartLevels
    /\ humor_level \in StartLevels
    /\ pending_param \in {None, "honesty", "humor"}
    /\ pc = "line 202"
    /\ recognition_error = ""
    /\ user_input \in AdjustmentPhrases
    /\ intent = ""
    /\ previous_intent = ""
    /\ spoken = <<>>
    /\ playback = ""
    /\ chat_call = NoCall
    /\ chat_reply = NoReply
    /\ launch = NoLaunch

\* Lines 202-205 for an adjustment made.
AdjustCallAdjusts ==
    /\ pc = "line 202"
    /\ Adjusted(AdjustPersonality(user_input, honesty_level, humor_level, pending_param))
    /\ \E p \in PlaybackOutcomes : playback' = p
    /\ pc' = "line 205"
    /\ UNCHANGED <<recognition_error, user_input, previous_intent, chat_call, chat_reply,
                   launch>>

\* Lines 202-203 for None returned: the globals are as they were and the
\* loop goes on to line 208.
AdjustCallFallsThrough ==
    /\ pc = "line 202"
    /\ AdjustPersonality(user_input, honesty_level, humor_level, pending_param).result = ""
    /\ pc' = "line 208"
    /\ UNCHANGED <<honesty_level, humor_level, pending_param, recognition_error, user_input,
                   intent, previous_intent, spoken, playback, chat_call, chat_reply, launch>>

NextAdjust ==
    \/ AdjustCallAdjusts
    \/ AdjustCallFallsThrough

AdjustSpec == InitAdjust /\ [][NextAdjust]_vars

(***************************************************************************)
(* generate_llm_response on its own: called once, at line 217, with any    *)
(* short text in any of the fields a reply carries it in                   *)
(***************************************************************************)

\* The longest text a reply carries.
MaxText == 4

\* The characters of the texts: a letter, two sentence ends, two blanks.
TextAlphabet == {"a", ".", "?", " ", "\t"}

RECURSIVE TextsUpTo(_)
TextsUpTo(n) ==
    IF n = 0 THEN {""}
    ELSE LET shorter == TextsUpTo(n - 1)
         IN  shorter \cup {t \o c : t \in shorter, c \in TextAlphabet}

RawTexts == TextsUpTo(MaxText)

\* Every text in each place the code reads it from, and a chat() that
\* raises.
TextReplies ==
    {Reply("dict", t, "absent", "absent", "") : t \in RawTexts \ {""}}
      \cup {Reply("dict", "", "dict", "str", t) : t \in RawTexts}
      \cup {Reply("object", "", "object", "str", t) : t \in RawTexts}
      \cup {Reply("raise", "", "absent", "absent", "")}

InitFormat ==
    /\ honesty_level = (8 * Scale) \div 10
    /\ humor_level = (6 * Scale) \div 10
    /\ pending_param = None
    /\ pc = "line 217"
    /\ recognition_error = ""
    /\ user_input = "hello tars"
    /\ intent = ""
    /\ previous_intent = ""
    /\ spoken = <<>>
    /\ playback = ""
    /\ chat_call = [system_prompt |-> SystemPrompt(honesty_level, humor_level),
                    user |-> user_input]
    /\ chat_reply \in TextReplies
    /\ launch = NoLaunch

\* Lines 118-148 and 218: the reply is read without an exception, and the
\* sentence made of its text is spoken.
ResponseFormatted ==
    /\ pc = "line 217"
    /\ ~ExtractText(chat_reply).raised
    /\ spoken' = <<FormatSentence(ExtractText(chat_reply).text)>>
    /\ \E p \in PlaybackOutcomes : playback' = p
    /\ intent' = "chat"
    /\ pc' = "line 218"
    /\ UNCHANGED <<honesty_level, humor_level, pending_param, recognition_error, user_input,
                   previous_intent, chat_call, chat_reply, launch>>

\* Lines 149-151 and 218: an exception, and the apology is spoken.
ResponseFailed ==
    /\ pc = "line 217"
    /\ ExtractText(chat_reply).raised
    /\ spoken' = <<Apology>>
    /\ \E p \in PlaybackOutcomes : playback' = p
    /\ intent' = "chat"
    /\ pc' = "line 218"
    /\ UNCHANGED <<honesty_level, humor_level, pending_param, recognition_error, user_input,
                   previous_intent, chat_call, chat_reply, launch>>

NextFormat ==
    \/ ResponseFormatted
    \/ ResponseFailed

FormatSpec == InitFormat /\ [][NextFormat]_vars

(***************************************************************************)
(* Properties.  Each is stated on what a turn was given and what it did;   *)
(* the utterances and the values expected of them are written out here     *)
(* and owe nothing to the operators above.                                 *)
(***************************************************************************)

\* The parameter each query utterance asks about.
QueriedParam ==
    ("what is your honesty level" :> "honesty") @@ ("what is your humor level" :> "humor")

\* The value each 'set it to X' utterance asks for, in units of 1/Scale.
ItRequest == ("set it to 0.3" :> 3000) @@ ("set it to 70%" :> 7000)

\* C1: query-then-pending-adjust round trip.  A query turn for P sets
\* pending_param to P; a 'set it to X' turn right after it stores the
\* normalized X in P alone and clears pending_param; a further 'set it to X'
\* turn right after that changes neither level and goes to the language
\* model with that utterance.
C1_RoundTrip ==
    [][pc = "listen" =>
        /\ user_input' \in DOMAIN QueriedParam
              => pending_param' = QueriedParam[user_input']
        /\ user_input \in DOMAIN QueriedParam /\ user_input' \in DOMAIN ItRequest
              => /\ pending_param' = None
                 /\ IF QueriedParam[user_input] = "honesty"
                    THEN honesty_level' = ItRequest[user_input'] /\ humor_level' = humor_level
                    ELSE humor_level' = ItRequest[user_input'] /\ honesty_level' = honesty_level
                 /\ chat_call' = NoCall
        /\ previous_intent = "query" /\ user_input \in DOMAIN ItRequest
             /\ user_input' \in DOMAIN ItRequest
              => /\ honesty_level' = honesty_level
                 /\ humor_level' = humor_level
                 /\ pending_param' = None
                 /\ chat_call' # NoCall
                 /\ chat_call'.user = user_input'
                 /\ launch' = NoLaunch
    ]_vars

\* A 'set it to X' turn went to the language model right after a 'set it
\* to X' turn that adjusted the pending parameter.
C1_Witness ==
    /\ previous_intent = "adjust_pending"
    /\ intent = "chat"
    /\ user_input \in DOMAIN ItRequest
    /\ chat_call.user = user_input
    /\ pending_param = None

\* C2: both levels lie in [0.0, 1.0] in every reachable state, and the
\* state main starts in is honesty 0.8, humor 0.6, pending None.
C2_LevelsInRange ==
    /\ honesty_level \in 0..Scale
    /\ humor_level \in 0..Scale
    /\ pc = "start" => honesty_level = 8000 /\ humor_level = 6000 /\ pending_param = None

\* An adjustment to 150 was made and honesty stands at the upper end.
C2_Witness ==
    /\ user_input = "adjust your honesty to 150"
    /\ intent = "adjust_named"
    /\ honesty_level = Scale

\* The sentence that confirms each system command.
CommandSentence ==
    ("open browser" :> "Opening browser.")
      @@ ("show system info" :> "Displaying system information.")

TextlessReplies ==
    {Reply("object", "", "object", "str", ""),
     Reply("dict", "", "dict", "str", "  "),
     Reply("dict", "", "absent", "absent", "")}

\* C4: on a chat turn whose reply is read without an exception and carries
\* no text, the sentence spoken is the fixed apology.
C4_TextlessReplyApology ==
    intent = "chat" /\ chat_reply \in TextlessReplies
        => spoken = <<"I'm sorry, something went wrong with my response.">>

\* The utterances with an exit word and a system command that meet no
\* query or adjustment rule.
ExitAndCommand == {"goodbye, open browser", "system info then exit"}

\* C5: an utterance with an exit word and a system command, and no query or
\* adjustment, is an exit: the farewell is spoken, the loop terminates and
\* no process is launched.
C5_ExitBeforeCommand ==
    user_input \in ExitAndCommand
        => /\ spoken = <<"Shutting down. Goodbye.">>
           /\ pc = "done"
           /\ launch = NoLaunch
           /\ chat_call = NoCall

C5_Witness ==
    /\ user_input = "goodbye, open browser"
    /\ pc = "done"
    /\ spoken = <<"Shutting down. Goodbye.">>

\* The utterances that are an exit whatever the state.
ExitUtterances == ExitAndCommand \cup {"goodbye", "please shut down"}

\* C6: terminated is terminal.  An exit turn speaks the farewell, once, and
\* ends the loop; no other turn speaks it or ends the loop; and from the
\* terminated state nothing happens any more.
C6_TerminatedIsTerminal ==
    [][/\ pc = "listen" /\ user_input' \in ExitUtterances
          => pc' = "done" /\ spoken' = <<"Shutting down. Goodbye.">>
       /\ pc' = "done" /\ pc # "done"
          => pc = "listen" /\ spoken' = <<"Shutting down. Goodbye.">>
       /\ pc = "done" => UNCHANGED vars
    ]_vars

C6_Witness ==
    /\ pc = "done"
    /\ user_input = "please shut down"
    /\ spoken = <<"Shutting down. Goodbye.">>

\* The wording each adjustment phrase is made of.
WordingOf == [phrase \in AdjustmentPhrases |-> CHOOSE w \in Wordings : Phrase(w) = phrase]

\* C7: normalization, for named and pending adjustments alike.  The number
\* counts as a percentage when a percent mark follows it or it exceeds 1,
\* as a fraction otherwise; a percentage v in [0, 100] is stored as v/100, a
\* fraction v in [0, 1] as v.
C7_Normalization ==
    [][pc = "line 202" =>
        LET w == WordingOf[user_input]
            h == w.number.hundredths
            named == w.param \in {"honesty", "humor"}
            byPending == w.param = "it" /\ w.your = "" /\ w.level = "" /\ pending_param # None
            target == IF named THEN w.param ELSE pending_param
            percentage == w.mark # "" \/ h > 100
            expected == IF percentage THEN (h * Scale) \div 10000 ELSE (h * Scale) \div 100
        IN  (named \/ byPending) /\ (IF percentage THEN h <= 10000 ELSE h <= 100)
              => /\ target = "honesty" => honesty_level' = expected
                 /\ target = "humor" => humor_level' = expected
    ]_vars

\* A bare 50, spoken as a pending adjustment of humor, stored 0.5.
C7_Witness ==
    /\ pc = "line 205"
    /\ user_input = "set it to 50"
    /\ intent = "adjust_pending"
    /\ humor_level = 5000
    /\ honesty_level = 0

\* The named adjustments to 150, and the parameter each names.
OverRange ==
    ("adjust your honesty to 150" :> "honesty")
      @@ ("adjust humor level to 150 percent" :> "humor")

\* C8: a value past the range is clamped, not rejected: the adjustment is
\* made, the level stored is exactly 1.0, the confirmation says 100 percent,
\* and the turn does not go to the language model.
C8_ClampedNotRejected ==
    user_input \in DOMAIN OverRange
        => /\ IF OverRange[user_input] = "honesty"
              THEN /\ honesty_level = Scale
                   /\ spoken = <<"Adjusted my honesty level to 100 percent.">>
              ELSE /\ humor_level = Scale
                   /\ spoken = <<"Adjusted my humor level to 100 percent.">>
           /\ pending_param = None
           /\ chat_call = NoCall
           /\ pc = "listen"

C8_Witness ==
    /\ user_input = "adjust humor level to 150 percent"
    /\ humor_level = Scale
    /\ spoken = <<"Adjusted my humor level to 100 percent.">>

\* The utterances that are a named adjustment whatever the state.
NamedUtterances ==
    {"set your honesty level to 70%", "set honesty to 0.7", "adjust your honesty to 150",
     "set your humor level to 45%", "adjust humor level to 150 percent",
     "set humor to 20 and exit", "set your humor level to 45% then set it to 90"}

\* C9: the same named adjustment on two turns running stores the same
\* value and speaks the same confirmation, and leaves the state after the
\* second turn equal to the state after the first.
C9_Idempotent ==
    [][pc = "listen" /\ user_input \in NamedUtterances /\ user_input' = user_input
          => /\ honesty_level' = honesty_level
             /\ humor_level' = humor_level
             /\ pending_param' = pending_param
             /\ spoken' = spoken
             /\ pc' = "listen"
    ]_vars

\* A named adjustment right after a named adjustment.
C9_Witness ==
    /\ previous_intent = "adjust_named"
    /\ intent = "adjust_named"
    /\ user_input = "set honesty to 0.7"
    /\ honesty_level = 7000
    /\ spoken = <<"Adjusted my honesty level to 70 percent.">>

\* C10: an empty transcription, each handled recognition error included,
\* is a turn that does nothing: the globals keep their values, nothing is
\* spoken, neither the language model nor a launch is called, and the loop
\* goes on listening.
C10_EmptyTurnNoOp ==
    [][pc = "listen" =>
        /\ recognition_error' # "" => user_input' = ""
        /\ user_input' = ""
              => /\ honesty_level' = honesty_level
                 /\ humor_level' = humor_level
                 /\ pending_param' = pending_param
                 /\ spoken' = <<>>
                 /\ chat_call' = NoCall
                 /\ launch' = NoLaunch
                 /\ pc' = "listen"
    ]_vars

\* A recognition error right after a query, the pending parameter kept.
C10_Witness ==
    /\ recognition_error = "UnknownValueError"
    /\ user_input = ""
    /\ previous_intent = "query"
    /\ pending_param = "honesty"
    /\ spoken = <<>>
    /\ pc = "listen"

\* The parameter each utterance that meets a query test asks about.
AskedParam ==
    ("what is your honesty level" :> "honesty") @@ ("what is your humor level" :> "humor")
      @@ ("what is your humor level goodbye" :> "humor")
      @@ ("set honesty to 30 whatever level" :> "honesty")

\* The parameter and the value, in units of 1/Scale, of each utterance that
\* is a named adjustment whatever the state.
NamedRequest ==
    ("set your honesty level to 70%" :> [param |-> "honesty", value |-> 7000])
      @@ ("set honesty to 0.7" :> [param |-> "honesty", value |-> 7000])
      @@ ("adjust your honesty to 150" :> [param |-> "honesty", value |-> 10000])
      @@ ("set your humor level to 45%" :> [param |-> "humor", value |-> 4500])
      @@ ("adjust humor level to 150 percent" :> [param |-> "humor", value |-> 10000])
      @@ ("set humor to 20 and exit" :> [param |-> "humor", value |-> 2000])
      @@ ("set your humor level to 45% then set it to 90" :> [param |-> "humor", value |-> 4500])

\* The value of each utterance that adjusts the pending parameter when one
\* is pending.
PendingRequest == ItRequest @@ ("adjust it to 5 then open browser" :> 500)

\* The integer percentage of each level the loop can hold.
PercentOf ==
    (0 :> "0") @@ (500 :> "5") @@ (2000 :> "20") @@ (3000 :> "30") @@ (4500 :> "45")
      @@ (6000 :> "60") @@ (7000 :> "70") @@ (8000 :> "80") @@ (10000 :> "100")

\* C11: a query reports the current value.  The levels start at 80 and 60
\* percent; a level changes only on an adjustment of it, to the value the
\* adjustment asks for; and every query turn for P speaks the integer
\* percentage of the value P holds then.
C11_QueryReportsCurrent ==
    [][/\ pc = "start" => honesty_level = 8000 /\ humor_level = 6000
       /\ pc = "listen" /\ user_input' \in DOMAIN NamedRequest
             => IF NamedRequest[user_input'].param = "honesty"
                THEN honesty_level' = NamedRequest[user_input'].value
                ELSE humor_level' = NamedRequest[user_input'].value
       /\ honesty_level' # honesty_level
             => \/ /\ user_input' \in DOMAIN NamedRequest
                   /\ NamedRequest[user_input'] = [param |-> "honesty", value |-> honesty_level']
                \/ /\ user_input' \in DOMAIN PendingRequest
                   /\ pending_param = "honesty"
                   /\ honesty_level' = PendingRequest[user_input']
       /\ humor_level' # humor_level
             => \/ /\ user_input' \in DOMAIN NamedRequest
                   /\ NamedRequest[user_input'] = [param |-> "humor", value |-> humor_level']
                \/ /\ user_input' \in DOMAIN PendingRequest
                   /\ pending_param = "humor"
                   /\ humor_level' = PendingRequest[user_input']
       /\ pc = "listen" /\ user_input' \in DOMAIN AskedParam
             => spoken' = IF AskedParam[user_input'] = "honesty"
                          THEN <<"My honesty level is " \o PercentOf[honesty_level] \o " percent.">>
                          ELSE <<"My humor level is " \o PercentOf[humor_level] \o " percent.">>
    ]_vars

\* A humor query right after humor was set to 45%, answered with 45.
C11_Witness ==
    /\ previous_intent = "adjust_named"
    /\ intent = "query"
    /\ user_input = "what is your humor level"
    /\ humor_level = 4500
    /\ spoken = <<"My humor level is 45 percent.">>

\* C12: no error is fatal.  A turn on which the transcription failed, the
\* language-model call raised, a process launch failed or raised, or the
\* playback failed leaves the loop running unless the turn is an exit; and
\* the loop is left only on a turn whose utterance is an exit.
C12_NoErrorFatal ==
    [][/\ pc = "start" => pc' = "listen"
       /\ pc = "listen"
             => LET failed == recognition_error' # ""
                                \/ chat_reply'.shape = "raise"
                                \/ chat_reply'.content_kind = "none"
                                \/ launch'.outcome \in {"failed", "raised"}
                                \/ playback' = "failed"
                IN  /\ (failed /\ user_input' \notin ExitUtterances) => pc' = "listen"
                    /\ pc' # "listen"
                          => /\ user_input' \in ExitUtterances
                             /\ spoken' = <<"Shutting down. Goodbye.">>
    ]_vars

\* One turn on which the launch raised, the language-model call raised and
\* the playback of the apology failed; the loop listens on.
C12_Witness ==
    /\ user_input = "open browser"
    /\ launch.outcome = "raised"
    /\ chat_reply.shape = "raise"
    /\ playback = "failed"
    /\ pc = "listen"

\* C13: classification takes the first rule met, in the order query, named
\* adjustment, pending adjustment, exit, system command, chat.  An
\* utterance that meets a query test and an adjustment pattern or an exit
\* word is a query: no level changes and the loop runs on.  An utterance
\* that meets an adjustment rule and has an exit word or a system command is
\* the adjustment: the loop runs on and nothing is launched.  An utterance
\* that meets both adjustment patterns is the named adjustment.
C13_FirstRuleWins ==
    [][pc = "listen" =>
        /\ user_input' \in {"set honesty to 30 whatever level",
                            "what is your humor level goodbye"}
              => /\ pending_param' = AskedParam[user_input']
                 /\ honesty_level' = honesty_level
                 /\ humor_level' = humor_level
                 /\ Len(spoken') = 1
                 /\ SubSeq(spoken'[1], 1, 3) = "My "
                 /\ pc' = "listen"
                 /\ chat_call' = NoCall
                 /\ launch' = NoLaunch
        /\ user_input' = "set humor to 20 and exit"
              => /\ humor_level' = 2000
                 /\ spoken' = <<"Adjusted my humor level to 20 percent.">>
                 /\ pc' = "listen"
                 /\ launch' = NoLaunch
        /\ user_input' = "adjust it to 5 then open browser" /\ pending_param # None
              => /\ IF pending_param = "honesty"
                    THEN honesty_level' = 500 /\ humor_level' = humor_level
                    ELSE humor_level' = 500 /\ honesty_level' = honesty_level
                 /\ Len(spoken') = 1
                 /\ SubSeq(spoken'[1], 1, 8) = "Adjusted"
                 /\ pc' = "listen"
                 /\ launch' = NoLaunch
                 /\ chat_call' = NoCall
        /\ user_input' = "set your humor level to 45% then set it to 90"
              => /\ humor_level' = 4500
                 /\ honesty_level' = honesty_level
                 /\ spoken' = <<"Adjusted my humor level to 45 percent.">>
    ]_vars

\* 'set honesty to 30 whatever level' was heard as a query of honesty, the
\* level left at its default.
C13_Witness ==
    /\ user_input = "set honesty to 30 whatever level"
    /\ pending_param = "honesty"
    /\ honesty_level = 8000
    /\ spoken = <<"My honesty level is 80 percent.">>
    /\ pc = "listen"

\* C14: every adjustment made writes one level and clears pending.  A named
\* adjustment of P leaves the other level as it was and sets pending to
\* None, the pending parameter being P, the other one or none; a pending
\* adjustment writes the pending parameter only and sets pending to None.
C14_OneLevelWritten ==
    [][pc = "line 202" /\ pc' = "line 205" =>
        LET w == WordingOf[user_input]
            target == IF w.param = "it" THEN pending_param ELSE w.param
        IN  /\ target \in {"honesty", "humor"}
            /\ target = "honesty" => humor_level' = humor_level
            /\ target = "humor" => honesty_level' = honesty_level
            /\ pending_param' = "None"
            /\ Len(spoken') = 1
            /\ SubSeq(spoken'[1], 1, 12 + Len(target)) = "Adjusted my " \o target
    ]_vars

\* Humor was set by name to 0.45 with honesty at 0; honesty is as it was and
\* nothing is pending.
C14_Witness ==
    /\ pc = "line 205"
    /\ user_input = "set humor to 0.45"
    /\ intent = "adjust_named"
    /\ humor_level = 4500
    /\ honesty_level = 0
    /\ pending_param = "None"

\* The utterances that are neither a query nor an adjustment whatever the
\* state: chat, system commands, exits and the empty transcription.
Bystanders ==
    {"", "hello tars", "open browser", "show system info", "goodbye", "please shut down",
     "goodbye, open browser", "system info then exit"}

\* C15: the pending parameter is the one the latest query named and lasts
\* through the turns between.  Chat, system-command and empty turns leave
\* it as it is, so that a later 'set it to X' adjusts the parameter still
\* pending; a query for Q puts Q in its place; and it goes back to None on
\* an adjustment only.
C15_PendingLasts ==
    [][pc = "listen" =>
        /\ user_input' \in Bystanders => pending_param' = pending_param
        /\ user_input' \in DOMAIN AskedParam => pending_param' = AskedParam[user_input']
        /\ pending_param # "None" /\ user_input' \in DOMAIN ItRequest
              => /\ pending_param = "honesty" => honesty_level' = ItRequest[user_input']
                 /\ pending_param = "humor" => humor_level' = ItRequest[user_input']
                 /\ pending_param' = "None"
        /\ pending_param # "None" /\ pending_param' = "None"
              => /\ user_input' \in DOMAIN NamedRequest \cup DOMAIN PendingRequest
                 /\ Len(spoken') = 1
                 /\ SubSeq(spoken'[1], 1, 8) = "Adjusted"
    ]_vars

\* 'set it to 0.3' adjusted humor right after a chat turn: the query of
\* humor lies at least two turns back.
C15_Witness ==
    /\ previous_intent = "chat"
    /\ intent = "adjust_pending"
    /\ user_input = "set it to 0.3"
    /\ humor_level = 3000
    /\ pending_param = "None"

\* C16: a query turn changes the pending slot alone: it puts the parameter
\* asked there and leaves both levels as they were.  Chat, system-command
\* and exit turns change none of honesty, humor and pending.
C16_QueryWritesPendingOnly ==
    [][pc = "listen" =>
        /\ user_input' \in DOMAIN AskedParam
              => /\ honesty_level' = honesty_level
                 /\ humor_level' = humor_level
                 /\ pending_param' = AskedParam[user_input']
        /\ (user_input' \in Bystanders \ {""}) \/ chat_call' # NoCall \/ launch' # NoLaunch
             \/ pc' = "done"
              => /\ honesty_level' = honesty_level
                 /\ humor_level' = humor_level
                 /\ pending_param' = pending_param
    ]_vars

\* The loop ended on 'goodbye' with honesty adjusted to 70 percent and
\* humor still pending from a query.
C16_Witness ==
    /\ pc = "done"
    /\ user_input = "goodbye"
    /\ honesty_level = 7000
    /\ humor_level = 6000
    /\ pending_param = "humor"

\* C17: the system prompt of every language-model call is made from the
\* state at the time of the call: the percentages written into it are those
\* of the levels held when the turn is taken, and the user message is the
\* utterance of the turn.
C17_PromptFromCurrentState ==
    [][pc = "listen" /\ chat_call' # NoCall =>
        LET lead == "You are TARS, the advanced AI from Interstellar. "
                      \o "Your responses are governed by two parameters: honesty level and humor level. "
            honesty == "Your honesty level is " \o PercentOf[honesty_level] \o " percent"
            between == ", meaning you are extremely direct, efficient, and clear. "
            humor == "Your humor level is " \o PercentOf[humor_level] \o " percent, so you"
            prompt == chat_call'.system_prompt
        IN  /\ SubSeq(prompt, 1, Len(lead)) = lead
            /\ SubSeq(prompt, Len(lead) + 1, Len(lead) + Len(honesty)) = honesty
            /\ SubSeq(prompt, Len(lead) + Len(honesty) + 1,
                      Len(lead) + Len(honesty) + Len(between)) = between
            /\ SubSeq(prompt, Len(lead) + Len(honesty) + Len(between) + 1,
                      Len(lead) + Len(honesty) + Len(between) + Len(humor)) = humor
            /\ chat_call'.user = user_input'
            /\ honesty_level' = honesty_level
            /\ humor_level' = humor_level
    ]_vars

\* A chat turn after both levels were adjusted: the prompt says 70 and 45,
\* not the 80 and 60 the program started with.
C17_Witness ==
    /\ intent = "chat"
    /\ user_input = "hello tars"
    /\ honesty_level = 7000
    /\ humor_level = 4500
    /\ Contains(chat_call.system_prompt, "Your honesty level is 70 percent")
    /\ Contains(chat_call.system_prompt, "Your humor level is 45 percent")

\* The text a reply carries, where the code looks for it.
RawText(reply) ==
    IF reply.shape = "dict" /\ reply.response # "" THEN reply.response ELSE reply.content

\* s has a sentence boundary: a '.', '!' or '?' with a blank right after it.
HasBoundary(s) ==
    \E p \in 1..(Len(s) - 1) :
        /\ SubSeq(s, p, p) \in {".", "!", "?"}
        /\ SubSeq(s, p + 1, p + 1) \in {" ", "\t"}

\* s ends in '.', '!' or '?'.
EndsSentence(s) == Len(s) >= 1 /\ SubSeq(s, Len(s), Len(s)) \in {".", "!", "?"}

\* From(t, i, j) is t without the blanks at its two ends.
From(t, i, j) == IF i > j THEN "" ELSE SubSeq(t, i, j)

IsStripAt(t, i, j) ==
    /\ \A k \in 1..(i - 1) : SubSeq(t, k, k) \in {" ", "\t"}
    /\ \A k \in (j + 1)..Len(t) : SubSeq(t, k, k) \in {" ", "\t"}
    /\ i <= j => /\ SubSeq(t, i, i) \notin {" ", "\t"}
                 /\ SubSeq(t, j, j) \notin {" ", "\t"}
    /\ i > j => \A k \in 1..Len(t) : SubSeq(t, k, k) \in {" ", "\t"}

\* The first n characters of s are its first sentence: s up to the first
\* blank that follows a '.', '!' or '?', all of s when there is none.
IsFirstSentenceAt(s, n) ==
    /\ ~HasBoundary(SubSeq(s, 1, n))
    /\ \/ n = Len(s)
       \/ /\ EndsSentence(SubSeq(s, 1, n))
          /\ SubSeq(s, n + 1, n + 1) \in {" ", "\t"}

\* out is the first sentence of the stripped t, a '.' appended exactly when
\* it does not end in '.', '!' or '?'.
IsSentenceOf(out, t) ==
    \E i \in 1..(Len(t) + 1), j \in 0..Len(t) :
        /\ IsStripAt(t, i, j)
        /\ \E n \in 0..Len(From(t, i, j)) :
              /\ IsFirstSentenceAt(From(t, i, j), n)
              /\ out = SubSeq(From(t, i, j), 1, n)
                         \o (IF EndsSentence(SubSeq(From(t, i, j), 1, n)) THEN "" ELSE ".")

\* C18: response formatting.  The sentence spoken for a reply is the fixed
\* apology, or a non-empty string that is the first sentence of the
\* stripped text with a '.' appended exactly when it does not end in '.',
\* '!' or '?'; either way it ends in one of the three and holds no sentence
\* boundary.
C18_FirstSentence ==
    pc = "line 218" =>
        /\ Len(spoken) = 1
        /\ \/ spoken[1] = "I'm sorry, something went wrong with my response."
           \/ /\ spoken[1] # ""
              /\ chat_reply.shape # "raise"
              /\ IsSentenceOf(spoken[1], RawText(chat_reply))
        /\ EndsSentence(spoken[1])
        /\ ~HasBoundary(spoken[1])

\* A text of two sentences, of which the first is spoken.
C18_Witness ==
    /\ pc = "line 218"
    /\ chat_reply = Reply("dict", "", "dict", "str", "a? a")
    /\ spoken = <<"a?">>

=============================================================================
